---- MODULE Spec2Model ----
(***************************************************************************)
(* Background job orchestration of the colouring-book application: the    *)
(* export-to-ZIP pipeline (supabase/functions/export-book-zip and the      *)
(* ExportAllButton client) and the batch generation pipeline               *)
(* (supabase/functions/process-generation-job and BatchGenerator).         *)
(* One collection (book) is modelled; every handler is split at its await  *)
(* points, so that overlapping invocations interleave as they can on the   *)
(* platform.                                                               *)
(***************************************************************************)
EXTENDS Integers, Sequences, FiniteSets, TLC

\* ---------------------------------------------------------------- bounds
MaxPages == 2        \* page rows ever created by the user (ids 1..MaxPages)
MaxJobs == 2         \* export_jobs rows ever inserted
MaxDup == 2          \* duplicate deliveries of a trigger by the environment
MaxPrompts == 3      \* prompts of a generation job
MaxRequests == 2     \* requests sent to the export endpoint from outside the chain
MaxGenDup == 1       \* duplicate deliveries of a generation request
MaxInflight == 2     \* polls of one job a component has in flight when its timer fires
MaxRuns == 2         \* realtime batches started

\* ------------------------------------------------------ program constants
BATCH_SIZE == 1

Workers == {1, 2}    \* concurrently running export invocations
Clients == {1, 2}    \* browser tabs showing the ExportAllButton
GenWorkers == {1, 2} \* concurrently running generation invocations

NULL == "null"
ImageKinds == {"b64", "bad", "url"}
    \* b64: data:image/..;base64,<valid>   bad: data URL whose payload atob rejects
    \* url: anything the data-URL pattern does not match (e.g. an https URL)
Terminal == {"completed", "failed"}
Active == {"pending", "processing"}

VARIABLES
    book_pages,     \* rows of book_pages of the collection: [id, page_number, image]
    export_jobs,    \* sequence of export_jobs rows; the index is the job id
    staged,         \* objects under export-temp/<jobId>/: <<jobId, page_number, id>>
    archives,       \* sequence of uploaded archives: [job, entries]
    exportCalls,    \* internal calls {jobId, isInternalCall} in flight, per job
    exp,            \* the running export invocations, per worker slot
    clients,        \* ExportAllButton component state, per client
    dups,           \* duplicate deliveries made so far
    nextPageId,     \* the id the next inserted page row gets
    skips,          \* invocations that returned at once on a terminal job (history)
    generation_jobs,\* sequence of generation_jobs rows; the index is the job id
    genCalls,       \* requests to process-generation-job in flight
    gen,            \* the running invocations of process-generation-job, per slot
    history,        \* of the generation job: the page numbering it started from,
                    \* the provider's answers, the rows inserted (history)
    endpoint,       \* the last request the export endpoint answered, and its answer
    poller,         \* the status poller of the ExportAllButton, per client
    realtime        \* the realtime generation loop of the BatchGenerator

\* The browser state that no edge function touches.
uiVars == <<realtime>>

genVars == <<generation_jobs, genCalls, gen, history, uiVars>>

expVars == <<export_jobs, staged, archives, exportCalls, exp, clients, dups, skips,
             endpoint, poller, uiVars>>

vars == <<book_pages, export_jobs, staged, archives, exportCalls, exp, clients, dups,
          nextPageId, skips, genVars, endpoint, poller>>

\* ------------------------------------------------------------- helpers
Min(S) == CHOOSE x \in S : \A y \in S : x <= y
Max(S) == CHOOSE x \in S : \A y \in S : x >= y

JobIds == 1..Len(export_jobs)

\* .order("page_number", {ascending: true}).range(from, to): the rows at positions
\* from..to of the ordered result. Rows with equal page_number come in an order the
\* database does not fix, so a row may stand at any position its ties allow.
PositionsOf(p) ==
    LET below == Cardinality({q \in book_pages : q.page_number < p.page_number})
        upto == Cardinality({q \in book_pages : q.page_number <= p.page_number})
    IN below .. (upto - 1)

RangeResults(from, to) ==
    {S \in SUBSET book_pages :
        /\ Cardinality(S) = Cardinality({i \in from..to : i < Cardinality(book_pages)})
        /\ \E f \in [S -> from..to] :
              /\ \A p \in S : f[p] \in PositionsOf(p)
              /\ \A p, q \in S : p # q => f[p] # f[q]}

IdleWorker == [pc |-> "idle", jobId |-> 0, jobProcessed |-> 0, offset |-> 0,
               processed |-> 0, pageIds |-> {}, pages |-> {}, files |-> {}, zip |-> 0, err |-> NULL]

IdleClient == [status |-> "idle", jobId |-> 0, pc |-> "ready"]

\* The body and the Authorization header of a request to the export endpoint.
\* bookId, jobId: 0 when the body has none. auth: no Bearer header, a Bearer
\* token that is no user session, the session of the book's owner, the session
\* of another user, or the service-role key.
Credentials == {"none", "invalid", "owner", "stranger", "service"}

Requests == [isInternalCall : BOOLEAN, auth : Credentials, bookId : {0, 1},
             jobId : {0, 1}]

NoRequest == [isInternalCall |-> FALSE, auth |-> "none", bookId |-> 0, jobId |-> 0]

\* The component's poller: the live interval timers, whether pollIntervalRef
\* holds one, per job the polls in flight, the jobs a poll of this component
\* has observed completed or failed, and what has been shown to the user.
IdlePoller == [timers |-> 0, ref |-> FALSE, inflight |-> [j \in 1..MaxJobs |-> 0],
               seen |-> {}, downloadUrl |-> 0, toast |-> NULL]

\* The realtime loop: generating, abortRef.current, the loop index i over n
\* prompts, successCount and failures, where the loop stands, and (history) the
\* requests sent to the image provider and how many had been sent when Stop
\* was pressed (-1: not pressed), and the batches started so far.
IdleRealtime == [generating |-> FALSE, abort |-> FALSE, pc |-> "idle", i |-> 0, n |-> 0,
                 successCount |-> 0, failures |-> 0, sent |-> 0, sentAtStop |-> -1,
                 runs |-> 0]

NoJob == [book_id |-> 0, status |-> "none", prompts |-> <<>>, total_count |-> 0,
          completed_count |-> 0, failed_count |-> 0, error_message |-> NULL,
          completed_at |-> NULL]

IdleGen == [pc |-> "idle", jobId |-> 0, promptIndex |-> 0, job |-> NoJob,
            currentPageNumber |-> 0, useCloudflare |-> FALSE, imageUrl |-> NULL,
            failed |-> FALSE]

\* ---------------------------------------------------------------- Init
\* The book holds 0..MaxPages pages, numbered 1, 2, ... as the client numbers them.
InitPages ==
    UNION {{{[id |-> i, page_number |-> i, image |-> f[i]] : i \in 1..n} :
              f \in [1..n -> ImageKinds]} : n \in 0..MaxPages}

Init ==
    /\ book_pages \in InitPages
    /\ export_jobs = <<>>
    /\ staged = {}
    /\ archives = <<>>
    /\ exportCalls = [j \in 1..MaxJobs |-> 0]
    /\ exp = [w \in Workers |-> IdleWorker]
    /\ clients = [c \in Clients |-> IdleClient]
    /\ dups = 0
    /\ nextPageId = Cardinality(book_pages) + 1
    /\ skips = 0
    /\ endpoint = [seq |-> 0, request |-> NoRequest, status |-> 0]
    /\ poller = [c \in Clients |-> IdlePoller]
    /\ generation_jobs = <<>>
    /\ genCalls = {}
    /\ gen = [w \in GenWorkers |-> IdleGen]
    /\ history = [start |-> 0, answers |-> <<>>, inserted |-> {}, insertErrors |-> 0]
    /\ realtime = IdleRealtime

\* ------------------------------------------------- the user edits the book
\* useColoringBooks.addPage: inserts a row numbered pages.length + 1.
AddPage(kind) ==
    /\ nextPageId <= MaxPages
    /\ book_pages' = book_pages \cup
          {[id |-> nextPageId, page_number |-> Cardinality(book_pages) + 1, image |-> kind]}
    /\ nextPageId' = nextPageId + 1
    /\ UNCHANGED <<export_jobs, staged, archives, exportCalls, exp, clients, dups, skips>>
    /\ UNCHANGED <<genVars, endpoint, poller>>

\* useColoringBooks.deletePage: deletes the row; the other rows keep their numbers.
DeletePage(p) ==
    /\ p \in book_pages
    /\ book_pages' = book_pages \ {p}
    /\ UNCHANGED <<export_jobs, staged, archives, exportCalls, exp, clients, dups, nextPageId, skips>>
    /\ UNCHANGED <<genVars, endpoint, poller>>

\* ------------------------------------------- export-book-zip: entry handler
\* invokeNextBatch: a fire-and-forget POST {jobId, isInternalCall: true}.
invokeNextBatch_NotSent(calls, jobId) == calls

invokeNextBatch(calls, jobId) == [calls EXCEPT ![jobId] = @ + 1]

NewExportJob(count) ==
    [book_id |-> 1, status |-> "processing", total_pages |-> count,
     processed_pages |-> 0, current_offset |-> 0, download_url |-> 0,
     error_message |-> NULL, completed_at |-> NULL]

\* The external call path for an authenticated owner: count the pages, insert the
\* job row and trigger the first invocation. The result is the response body.
ExternalCallOk == Cardinality(book_pages) # 0

CreateExportJob ==
    /\ export_jobs' = Append(export_jobs, NewExportJob(Cardinality(book_pages)))
    /\ exportCalls' = invokeNextBatch(exportCalls, Len(export_jobs) + 1)

\* ------------------------------------------- export-book-zip: any request
\* The internal path's check: the header is exactly "Bearer <service key>".
InternalAuthorized_AnyBearer(req) == req.auth # "none"

InternalAuthorized(req) == req.auth = "service"

\* The external path's checks: a Bearer header, and auth.getUser() finds a user.
UserOf(req) == IF req.auth \in {"owner", "stranger"} THEN req.auth ELSE NULL

\* The HTTP status of the answer, as far as the checks before any write decide it.
Rejection(req) ==
    IF req.isInternalCall
    THEN IF ~InternalAuthorized(req) THEN 401
         ELSE IF req.jobId = 0 THEN 400
         ELSE 200
    ELSE IF UserOf(req) = NULL THEN 401
         ELSE IF req.bookId = 0 THEN 400
         ELSE IF UserOf(req) # "owner" THEN 404
         ELSE IF ~ExternalCallOk THEN 400
         ELSE 200

\* The handler for any request. An accepted external call inserts the job row
\* and triggers the first invocation; an accepted internal call runs
\* processNextBatch(jobId) in an invocation of its own; every other request is
\* answered with its error status.
HandleRequest(req) ==
    /\ endpoint.seq < MaxRequests
    /\ endpoint' = [seq |-> endpoint.seq + 1, request |-> req, status |-> Rejection(req)]
    /\ IF Rejection(req) # 200
       THEN UNCHANGED <<export_jobs, exportCalls, exp>>
       ELSE IF req.isInternalCall
       THEN /\ \E w \in Workers : exp[w].pc = "idle"
            /\ LET w == Min({v \in Workers : exp[v].pc = "idle"})
               IN exp' = [exp EXCEPT ![w] = [IdleWorker EXCEPT !.pc = "load",
                                                               !.jobId = req.jobId]]
            /\ UNCHANGED <<export_jobs, exportCalls>>
       ELSE /\ Len(export_jobs) < MaxJobs
            /\ CreateExportJob
            /\ UNCHANGED exp
    /\ UNCHANGED <<book_pages, staged, archives, clients, dups, nextPageId, skips, genVars,
                   poller>>

\* ------------------------------------------ delivery of the internal calls
\* The platform starts an invocation for a call in flight (service-role
\* Authorization, so the internal check passes and processNextBatch runs).
DeliverCall(j) ==
    /\ exportCalls[j] > 0
    /\ \E w \in Workers : exp[w].pc = "idle"
    /\ LET w == Min({v \in Workers : exp[v].pc = "idle"})
       IN exp' = [exp EXCEPT ![w] = [IdleWorker EXCEPT !.pc = "load", !.jobId = j]]
    /\ exportCalls' = [exportCalls EXCEPT ![j] = @ - 1]
    /\ UNCHANGED <<book_pages, export_jobs, staged, archives, clients, dups, nextPageId, skips>>
    /\ UNCHANGED <<genVars, endpoint, poller>>

\* A call is delivered a second time (a retried or repeated trigger).
DuplicateCall(j) ==
    /\ exportCalls[j] > 0
    /\ dups < MaxDup
    /\ dups' = dups + 1
    /\ exportCalls' = [exportCalls EXCEPT ![j] = @ + 1]
    /\ UNCHANGED <<book_pages, export_jobs, staged, archives, exp, clients, nextPageId, skips>>
    /\ UNCHANGED <<genVars, endpoint, poller>>

\* The fire-and-forget fetch fails ("Self-invoke error"): the call is lost.
DropCall(j) ==
    /\ exportCalls[j] > 0
    /\ exportCalls' = [exportCalls EXCEPT ![j] = @ - 1]
    /\ UNCHANGED <<book_pages, export_jobs, staged, archives, exp, clients, dups, nextPageId, skips>>
    /\ UNCHANGED <<genVars, endpoint, poller>>

\* -------------------------------------------------------- processNextBatch
AlreadyFinished_OnlyCompleted(job) == job.status = "completed"

\* The idempotent re-invocation guard.
AlreadyFinished(job) == job.status = "completed" \/ job.status = "failed"

Cursor_Restart(job) == 0

\* The cursor an invocation starts from: job.current_offset of the loaded row.
Cursor(job) == job.current_offset

\* Load the job row; return at once when it is missing or already terminal.
ExpLoadJob(w) ==
    /\ exp[w].pc = "load"
    /\ LET j == exp[w].jobId IN
       IF j \notin JobIds
       THEN exp' = [exp EXCEPT ![w] = IdleWorker] /\ UNCHANGED skips
       ELSE IF AlreadyFinished(export_jobs[j])
       THEN exp' = [exp EXCEPT ![w] = IdleWorker] /\ skips' = Min({skips + 1, 2})
       ELSE /\ exp' = [exp EXCEPT ![w].pc = "select",
                                  ![w].jobProcessed = export_jobs[j].processed_pages,
                                  ![w].offset = Cursor(export_jobs[j]),
                                  ![w].processed = export_jobs[j].processed_pages]
            /\ UNCHANGED skips
    /\ UNCHANGED <<book_pages, export_jobs, staged, archives, exportCalls, clients, dups,
                   nextPageId>>
    /\ UNCHANGED <<genVars, endpoint, poller>>

\* Select the ids of the batch at the cursor; no row there: finalize.
ExpSelectPageIds(w) ==
    /\ exp[w].pc = "select"
    /\ \E ids \in RangeResults(exp[w].offset, exp[w].offset + BATCH_SIZE - 1) :
          exp' = [exp EXCEPT ![w].pc = IF ids = {} THEN "fin_list" ELSE "fetch",
                             ![w].pageIds = {p.id : p \in ids}]
    /\ UNCHANGED <<book_pages, export_jobs, staged, archives, exportCalls, clients, dups, nextPageId, skips>>
    /\ UNCHANGED <<genVars, endpoint, poller>>

\* Fetch the full rows of the selected ids (.in("id", ...)): rows deleted since
\* the selection are simply missing from the result.
ExpFetchPages(w) ==
    /\ exp[w].pc = "fetch"
    /\ exp' = [exp EXCEPT ![w].pc = "loop",
                          ![w].pages = {p \in book_pages : p.id \in exp[w].pageIds}]
    /\ UNCHANGED <<book_pages, export_jobs, staged, archives, exportCalls, clients, dups, nextPageId, skips>>
    /\ UNCHANGED <<genVars, endpoint, poller>>

\* One iteration of the loop over the fetched rows, up to its upload: a row the
\* data-URL pattern does not match is passed over, atob throws on a bad payload,
\* otherwise the decoded bytes are uploaded (upsert) to
\* export-temp/<jobId>/<page_number>_<shortId>.png.
ExpStagePage(w) ==
    /\ exp[w].pc = "loop"
    /\ \E p \in exp[w].pages :
        IF p.image = "url"
        THEN /\ exp' = [exp EXCEPT ![w].pages = @ \ {p}]
             /\ UNCHANGED staged
        ELSE IF p.image = "bad"
        THEN /\ exp' = [exp EXCEPT ![w].pc = "catch", ![w].err = "atobError"]
             /\ UNCHANGED staged
        ELSE /\ staged' = staged \cup {<<exp[w].jobId, p.page_number, p.id>>}
             /\ exp' = [exp EXCEPT ![w].pc = "progress", ![w].pages = @ \ {p}]
    /\ UNCHANGED <<book_pages, export_jobs, archives, exportCalls, clients, dups, nextPageId, skips>>
    /\ UNCHANGED <<genVars, endpoint, poller>>

\* An awaited call of processNextBatch returns an error and the code throws it:
\* pagesError, fetchError or uploadError.
ExpThrow(w) ==
    /\ \/ exp[w].pc \in {"select", "fetch"}
       \/ exp[w].pc = "loop" /\ \E p \in exp[w].pages : p.image = "b64"
    /\ exp' = [exp EXCEPT ![w].pc = "catch",
                          ![w].err = CASE exp[w].pc = "select" -> "pagesError"
                                       [] exp[w].pc = "fetch" -> "fetchError"
                                       [] OTHER -> "uploadError"]
    /\ UNCHANGED <<book_pages, export_jobs, staged, archives, exportCalls, clients, dups, nextPageId, skips>>
    /\ UNCHANGED <<genVars, endpoint, poller>>

\* newOffset += 1; newProcessed += 1; update the row with both.
ExpUpdateProgress(w) ==
    /\ exp[w].pc = "progress"
    /\ LET j == exp[w].jobId IN
       /\ export_jobs' = [export_jobs EXCEPT ![j].current_offset = exp[w].offset + 1,
                                              ![j].processed_pages = exp[w].processed + 1]
       /\ exp' = [exp EXCEPT ![w].pc = "loop", ![w].offset = @ + 1,
                             ![w].processed = @ + 1]
    /\ UNCHANGED <<book_pages, staged, archives, exportCalls, clients, dups, nextPageId, skips>>
    /\ UNCHANGED <<genVars, endpoint, poller>>

\* After the loop: self-invoke for the next page and return.
ExpInvokeNext(w) ==
    /\ exp[w].pc = "loop"
    /\ exp[w].pages = {}
    /\ exportCalls' = invokeNextBatch(exportCalls, exp[w].jobId)
    /\ exp' = [exp EXCEPT ![w] = IdleWorker]
    /\ UNCHANGED <<book_pages, export_jobs, staged, archives, clients, dups, nextPageId, skips>>
    /\ UNCHANGED <<genVars, endpoint, poller>>

\* The catch block of processNextBatch.
ExpCatch_LogOnly(w) ==
    /\ exp[w].pc = "catch"
    /\ exp' = [exp EXCEPT ![w] = IdleWorker]
    /\ UNCHANGED <<book_pages, export_jobs, staged, archives, exportCalls, clients, dups,
                   nextPageId, skips>>
    /\ UNCHANGED <<genVars, endpoint, poller>>

ExpCatch(w) ==
    /\ exp[w].pc = "catch"
    /\ export_jobs' = [export_jobs EXCEPT ![exp[w].jobId].status = "failed",
                                           ![exp[w].jobId].error_message = exp[w].err,
                                           ![exp[w].jobId].completed_at = "set"]
    /\ exp' = [exp EXCEPT ![w] = IdleWorker]
    /\ UNCHANGED <<book_pages, staged, archives, exportCalls, clients, dups, nextPageId, skips>>
    /\ UNCHANGED <<genVars, endpoint, poller>>

\* The invocation is killed where it stands (the CPU or wall-clock limit of the
\* runtime): nothing more of it runs, its catch block included.
ExpCrash(w) ==
    /\ exp[w].pc # "idle"
    /\ exp' = [exp EXCEPT ![w] = IdleWorker]
    /\ UNCHANGED <<book_pages, export_jobs, staged, archives, exportCalls, clients, dups,
                   nextPageId, skips>>
    /\ UNCHANGED <<genVars, endpoint, poller>>

\* The internal call {jobId, isInternalCall: true} of a job whose chain has
\* stopped is sent once more.
ExpRetry(j) ==
    /\ j \in JobIds
    /\ export_jobs[j].status \notin Terminal
    /\ exportCalls[j] = 0
    /\ \A w \in Workers : exp[w].pc = "idle"
    /\ dups < MaxDup
    /\ dups' = dups + 1
    /\ exportCalls' = [exportCalls EXCEPT ![j] = @ + 1]
    /\ UNCHANGED <<book_pages, export_jobs, staged, archives, exp, clients, nextPageId, skips>>
    /\ UNCHANGED <<genVars, endpoint, poller>>

\* ---------------------------------------------------------- finalizeExport
StagedOf(j) == {<<f[2], f[3]>> : f \in {g \in staged : g[1] = j}}

FirstFile(S) == CHOOSE f \in S : \A g \in S : f[1] < g[1] \/ (f[1] = g[1] /\ f[2] <= g[2])

\* List export-temp/<jobId>; an empty listing is an error.
FinList(w) ==
    /\ exp[w].pc = "fin_list"
    /\ exp' = IF StagedOf(exp[w].jobId) = {}
              THEN [exp EXCEPT ![w].pc = "fin_catch", ![w].err = "No files to archive"]
              ELSE [exp EXCEPT ![w].pc = "fin_zip", ![w].files = StagedOf(exp[w].jobId)]
    /\ UNCHANGED <<book_pages, export_jobs, staged, archives, exportCalls, clients, dups, nextPageId, skips>>
    /\ UNCHANGED <<genVars, endpoint, poller>>

\* Download every listed file (a failed download is passed over), build the
\* archive and upload it. lost: the listed files whose download fails.
FinZip(w, lost) ==
    /\ exp[w].pc = "fin_zip"
    /\ lost \subseteq exp[w].files
    /\ archives' = Append(archives,
           [job |-> exp[w].jobId,
            entries |-> (exp[w].files \cap StagedOf(exp[w].jobId)) \ lost])
    /\ exp' = [exp EXCEPT ![w].pc = "fin_complete", ![w].zip = Len(archives) + 1]
    /\ UNCHANGED <<book_pages, export_jobs, staged, exportCalls, clients, dups, nextPageId, skips>>
    /\ UNCHANGED <<genVars, endpoint, poller>>

\* Update the job as completed with the archive's public URL.
FinComplete(w) ==
    /\ exp[w].pc = "fin_complete"
    /\ export_jobs' = [export_jobs EXCEPT ![exp[w].jobId].status = "completed",
                                           ![exp[w].jobId].download_url = exp[w].zip,
                                           ![exp[w].jobId].completed_at = "set"]
    /\ exp' = [exp EXCEPT ![w].pc = "fin_cleanup"]
    /\ UNCHANGED <<book_pages, staged, archives, exportCalls, clients, dups, nextPageId, skips>>
    /\ UNCHANGED <<genVars, endpoint, poller>>

\* Clean up the temp files, one remove per listed file; the result of a remove is
\* not looked at (removed = FALSE: it returned an error). After the last one
\* finalizeExport and the invocation return.
FinCleanup(w, removed) ==
    /\ exp[w].pc = "fin_cleanup"
    /\ IF exp[w].files = {}
       THEN /\ exp' = [exp EXCEPT ![w] = IdleWorker]
            /\ UNCHANGED staged
       ELSE LET f == FirstFile(exp[w].files) IN
            /\ staged' = IF removed THEN staged \ {<<exp[w].jobId, f[1], f[2]>>} ELSE staged
            /\ exp' = [exp EXCEPT ![w].files = @ \ {f}]
    /\ UNCHANGED <<book_pages, export_jobs, archives, exportCalls, clients, dups, nextPageId, skips>>
    /\ UNCHANGED <<genVars, endpoint, poller>>

\* A step of finalizeExport throws: listError, the archive's uploadError, or a
\* remove that throws instead of returning its error.
FinThrow(w) ==
    /\ \/ exp[w].pc \in {"fin_list", "fin_zip"}
       \/ exp[w].pc = "fin_cleanup" /\ exp[w].files # {}
    /\ exp' = [exp EXCEPT ![w].pc = "fin_catch",
                          ![w].err = CASE exp[w].pc = "fin_list" -> "listError"
                                       [] exp[w].pc = "fin_zip" -> "uploadError"
                                       [] OTHER -> "removeError"]
    /\ UNCHANGED <<book_pages, export_jobs, staged, archives, exportCalls, clients, dups, nextPageId, skips>>
    /\ UNCHANGED <<genVars, endpoint, poller>>

\* The catch block of finalizeExport.
FinCatch(w) ==
    /\ exp[w].pc = "fin_catch"
    /\ export_jobs' = [export_jobs EXCEPT ![exp[w].jobId].status = "failed",
                                           ![exp[w].jobId].error_message = exp[w].err,
                                           ![exp[w].jobId].completed_at = "set"]
    /\ exp' = [exp EXCEPT ![w] = IdleWorker]
    /\ UNCHANGED <<book_pages, staged, archives, exportCalls, clients, dups, nextPageId, skips>>
    /\ UNCHANGED <<genVars, endpoint, poller>>

\* ------------------------------------------- ExportAllButton: handleExportAll
InProgressStatuses_PendingOnly == {"pending"}

\* The statuses the client's query looks for: .in('status', ['pending', 'processing']).
InProgressStatuses == {"pending", "processing"}

\* The query for an existing pending/processing job of this book, newest first
\* (0: no such row).
ExistingJob ==
    LET found == {j \in JobIds : /\ export_jobs[j].book_id = 1
                                 /\ export_jobs[j].status \in InProgressStatuses}
    IN IF found = {} THEN 0 ELSE Max(found)

\* clearInterval(pollIntervalRef.current) when the ref holds a timer.
ClearPollInterval(p) ==
    IF p.ref THEN [p EXCEPT !.timers = @ - 1, !.ref = FALSE] ELSE p

\* The poll effect, run by the commit that changes (jobId, status) from those of
\* old to those of new: the cleanup of the previous run, then, with a job id
\* and status exporting, one poll at once and a new interval timer.
PollEffect(p, old, new) ==
    IF <<old.jobId, old.status>> = <<new.jobId, new.status>> THEN p
    ELSE LET cleaned == ClearPollInterval(p) IN
         IF new.jobId = 0 \/ new.status # "exporting" THEN cleaned
         ELSE [cleaned EXCEPT !.inflight[new.jobId] = @ + 1,
                              !.timers = @ + 1, !.ref = TRUE]

\* The button is pressed (in status complete the component renders no such
\* button): the guard against double clicks, then the query is sent.
ClientClick(c) ==
    /\ clients[c].pc = "ready"
    /\ clients[c].status # "exporting"
    /\ clients[c].status # "complete"
    /\ clients' = [clients EXCEPT ![c].pc = "query"]
    /\ UNCHANGED <<book_pages, export_jobs, staged, archives, exportCalls, exp, dups, nextPageId, skips>>
    /\ UNCHANGED <<genVars, endpoint, poller>>

\* The query answers: attach to the existing job, or go on to create one.
ClientQuery(c) ==
    /\ clients[c].pc = "query"
    /\ clients' = IF ExistingJob # 0
                  THEN [clients EXCEPT ![c].jobId = ExistingJob,
                                       ![c].status = "exporting", ![c].pc = "resume"]
                  ELSE [clients EXCEPT ![c].status = "exporting", ![c].pc = "create"]
    /\ poller' = [poller EXCEPT ![c] =
                     LET p == PollEffect(poller[c], clients[c], clients'[c])
                     IN IF ExistingJob # 0 THEN p ELSE [p EXCEPT !.downloadUrl = 0]]
    /\ UNCHANGED <<book_pages, export_jobs, staged, archives, exportCalls, exp, dups, nextPageId, skips>>
    /\ UNCHANGED <<genVars, endpoint>>

\* The resume call {jobId} carries no isInternalCall: the handler takes it for an
\* external call, finds no bookId and answers 400. The client logs the error.
ClientResume(c) ==
    /\ clients[c].pc = "resume"
    /\ clients' = [clients EXCEPT ![c].pc = "ready"]
    /\ UNCHANGED <<book_pages, export_jobs, staged, archives, exportCalls, exp, dups, nextPageId, skips>>
    /\ UNCHANGED <<genVars, endpoint, poller>>

\* The call {bookId, bookTitle} and its answer: the job is created and the client
\* takes its id, or the book has no pages (400) and the client shows the error.
ClientCreate(c) ==
    /\ clients[c].pc = "create"
    /\ IF ExternalCallOk
       THEN /\ Len(export_jobs) < MaxJobs
            /\ CreateExportJob
            /\ clients' = [clients EXCEPT ![c].jobId = Len(export_jobs) + 1, ![c].pc = "ready"]
       ELSE /\ clients' = [clients EXCEPT ![c].status = "error", ![c].pc = "ready"]
            /\ UNCHANGED <<export_jobs, exportCalls>>
    /\ poller' = [poller EXCEPT ![c] = PollEffect(poller[c], clients[c], clients'[c])]
    /\ UNCHANGED <<book_pages, staged, archives, exp, dups, nextPageId, skips>>
    /\ UNCHANGED <<genVars, endpoint>>

\* The component is unmounted and mounted afresh (page reload, or the page is
\* left and opened again): its state starts over while the job rows stay.
ClientReset(c) ==
    /\ clients[c].pc = "ready"
    /\ clients[c] # IdleClient
    /\ clients' = [clients EXCEPT ![c] = IdleClient]
    /\ poller' = [poller EXCEPT ![c] = IdlePoller]
    /\ UNCHANGED <<book_pages, export_jobs, staged, archives, exportCalls, exp, dups,
                   nextPageId, skips>>
    /\ UNCHANGED <<genVars, endpoint>>

\* The bookId prop changes: the reset effect sets status, download URL and job
\* id back and clears the timer. Polls already sent stay in flight.
BookChange(c) ==
    /\ clients[c].pc = "ready"
    /\ clients[c] # IdleClient
    /\ clients' = [clients EXCEPT ![c] = IdleClient]
    /\ poller' = [poller EXCEPT ![c] = [ClearPollInterval(poller[c]) EXCEPT !.downloadUrl = 0]]
    /\ UNCHANGED <<book_pages, export_jobs, staged, archives, exportCalls, exp, dups,
                   nextPageId, skips>>
    /\ UNCHANGED <<genVars, endpoint>>

\* The Reset button, rendered in status complete.
handleReset(c) ==
    /\ clients[c].pc = "ready"
    /\ clients[c].status = "complete"
    /\ clients' = [clients EXCEPT ![c] = IdleClient]
    /\ poller' = [poller EXCEPT ![c] = [ClearPollInterval(poller[c]) EXCEPT !.downloadUrl = 0]]
    /\ UNCHANGED <<book_pages, export_jobs, staged, archives, exportCalls, exp, dups,
                   nextPageId, skips>>
    /\ UNCHANGED <<genVars, endpoint>>

\* The interval timer fires: pollStatus sends the query for the job id of the
\* effect run that set the timer.
PollTick(c) ==
    /\ poller[c].timers > 0
    /\ clients[c].jobId # 0
    /\ poller[c].inflight[clients[c].jobId] < MaxInflight
    /\ poller' = [poller EXCEPT ![c].inflight[clients[c].jobId] = @ + 1]
    /\ UNCHANGED <<book_pages, export_jobs, staged, archives, exportCalls, exp, clients,
                   dups, nextPageId, skips>>
    /\ UNCHANGED <<genVars, endpoint>>

\* The query of a poll of job j answers (ok: without error) and pollStatus goes on
\* from its await.
PollReturn(c, j, ok) ==
    /\ poller[c].inflight[j] > 0
    /\ LET data == export_jobs[j]
           p == [poller[c] EXCEPT !.inflight[j] = @ - 1]
       IN CASE ok /\ data.status = "completed" /\ data.download_url # 0 ->
                 /\ clients' = [clients EXCEPT ![c].status = "complete"]
                 /\ poller' = [poller EXCEPT ![c] =
                        PollEffect([ClearPollInterval(p) EXCEPT !.downloadUrl = data.download_url,
                                                          !.toast = "Export complete!",
                                                          !.seen = @ \cup {j}],
                                   clients[c], clients'[c])]
            [] ok /\ data.status = "failed" ->
                 /\ clients' = [clients EXCEPT ![c].status = "error"]
                 /\ poller' = [poller EXCEPT ![c] =
                        PollEffect([ClearPollInterval(p) EXCEPT
                                       !.toast = IF data.error_message # NULL
                                                 THEN data.error_message
                                                 ELSE "There was an error creating the ZIP file.",
                                       !.seen = @ \cup {j}],
                                   clients[c], clients'[c])]
            [] OTHER ->
                 /\ poller' = [poller EXCEPT ![c] = p]
                 /\ UNCHANGED clients
    /\ UNCHANGED <<book_pages, export_jobs, staged, archives, exportCalls, exp, dups,
                   nextPageId, skips>>
    /\ UNCHANGED <<genVars, endpoint>>

\* ------------------------------------- BatchGenerator: background generation
NewGenerationJob(n) ==
    [book_id |-> 1, status |-> "pending", prompts |-> [i \in 1..n |-> i],
     total_count |-> n, completed_count |-> 0, failed_count |-> 0,
     error_message |-> NULL, completed_at |-> NULL]

\* .order("page_number", {ascending: false}).limit(1), then (?.page_number || 0).
MaxPageNumber_Ascending ==
    IF book_pages = {} THEN 0 ELSE Min({p.page_number : p \in book_pages})

MaxPageNumber == IF book_pages = {} THEN 0 ELSE Max({p.page_number : p \in book_pages})

\* handleBackgroundGenerate with n non-empty prompt lines: insert the job row
\* (status defaults to pending) and invoke the processor with {jobId} under the
\* user's own session.
handleBackgroundGenerate(n) ==
    /\ generation_jobs = <<>>
    /\ generation_jobs' = <<NewGenerationJob(n)>>
    /\ genCalls' = genCalls \cup {[jobId |-> 1, promptIndex |-> 0, auth |-> "user"]}
    /\ history' = [history EXCEPT !.start = Max({0} \cup {p.page_number : p \in book_pages})]
    /\ UNCHANGED <<book_pages, nextPageId, gen, expVars>>

\* A request {jobId} that carries the service-role key (promptIndex defaults to 0)
\* starts the chain of a job that waits as pending.
TriggerProcessor ==
    /\ Len(generation_jobs) = 1
    /\ generation_jobs[1].status = "pending"
    /\ \A w \in GenWorkers : gen[w].pc = "idle"
    /\ \A m \in genCalls : m.auth # "service"
    /\ genCalls' = genCalls \cup {[jobId |-> 1, promptIndex |-> 0, auth |-> "service"]}
    /\ UNCHANGED <<book_pages, nextPageId, generation_jobs, gen, history, expVars>>

\* ------------------------------------------------- process-generation-job
\* A request whose Authorization is not the service-role key is answered 401.
GenUnauthorized(m) ==
    /\ m \in genCalls
    /\ m.auth # "service"
    /\ genCalls' = genCalls \ {m}
    /\ UNCHANGED <<book_pages, nextPageId, generation_jobs, gen, history, expVars>>

\* An authorized request starts an invocation.
GenDeliver(w, m) ==
    /\ m \in genCalls
    /\ m.auth = "service"
    /\ gen[w].pc = "idle"
    /\ genCalls' = genCalls \ {m}
    /\ gen' = [gen EXCEPT ![w] = [IdleGen EXCEPT !.pc = "load", !.jobId = m.jobId,
                                                  !.promptIndex = m.promptIndex]]
    /\ UNCHANGED <<book_pages, nextPageId, generation_jobs, history, expVars>>

\* A request is delivered a second time (a retried or repeated trigger): an
\* invocation starts and the request stays in flight.
GenDuplicateCall(w, m) ==
    /\ m \in genCalls
    /\ m.auth = "service"
    /\ gen[w].pc = "idle"
    /\ dups < MaxGenDup
    /\ dups' = dups + 1
    /\ gen' = [gen EXCEPT ![w] = [IdleGen EXCEPT !.pc = "load", !.jobId = m.jobId,
                                                  !.promptIndex = m.promptIndex]]
    /\ UNCHANGED <<book_pages, nextPageId, generation_jobs, genCalls, history, export_jobs,
                   staged, archives, exportCalls, exp, clients, skips, endpoint, poller, uiVars>>

\* The fetch of the next request fails; the error is logged and nothing follows.
GenDropCall(m) ==
    /\ m \in genCalls
    /\ m.auth = "service"
    /\ m.promptIndex > 0
    /\ genCalls' = genCalls \ {m}
    /\ UNCHANGED <<book_pages, nextPageId, generation_jobs, gen, history, expVars>>

\* Fetch the job: 404 when missing, "Job already finished" when terminal.
GenLoadJob(w) ==
    /\ gen[w].pc = "load"
    /\ gen' = IF gen[w].jobId \notin 1..Len(generation_jobs)
              THEN [gen EXCEPT ![w] = IdleGen]
              ELSE IF generation_jobs[gen[w].jobId].status \in {"completed", "failed"}
              THEN [gen EXCEPT ![w] = IdleGen]
              ELSE [gen EXCEPT ![w].pc = "mark", ![w].job = generation_jobs[gen[w].jobId]]
    /\ UNCHANGED <<book_pages, nextPageId, generation_jobs, genCalls, history, expVars>>

\* The first call of a pending job marks it processing.
GenMarkProcessing(w) ==
    /\ gen[w].pc = "mark"
    /\ generation_jobs' =
          IF gen[w].promptIndex = 0 /\ gen[w].job.status = "pending"
          THEN [generation_jobs EXCEPT ![gen[w].jobId].status = "processing"]
          ELSE generation_jobs
    /\ gen' = [gen EXCEPT ![w].pc = "check"]
    /\ UNCHANGED <<book_pages, nextPageId, genCalls, history, expVars>>

\* promptIndex >= prompts.length: mark the job completed and return.
GenCheckDone(w) ==
    /\ gen[w].pc = "check"
    /\ IF gen[w].promptIndex >= Len(gen[w].job.prompts)
       THEN /\ generation_jobs' = [generation_jobs EXCEPT ![gen[w].jobId].status = "completed",
                                                          ![gen[w].jobId].completed_at = "set"]
            /\ gen' = [gen EXCEPT ![w] = IdleGen]
       ELSE /\ gen' = [gen EXCEPT ![w].pc = "maxpage"]
            /\ UNCHANGED generation_jobs
    /\ UNCHANGED <<book_pages, nextPageId, genCalls, history, expVars>>

\* The page number of the new page: the current maximum of the book plus one.
GenMaxPage(w) ==
    /\ gen[w].pc = "maxpage"
    /\ gen' = [gen EXCEPT ![w].pc = "config", ![w].currentPageNumber = MaxPageNumber + 1]
    /\ UNCHANGED <<book_pages, nextPageId, generation_jobs, genCalls, history, expVars>>

\* The provider is chosen from the secrets the invocation finds: Cloudflare when
\* both of its secrets are set, else the gateway; with none the handler throws
\* and the outer catch answers 500 (the job row is not touched).
ApiConfigs == {"cloudflare", "lovable", "none"}

GenConfig(w, cfg) ==
    /\ gen[w].pc = "config"
    /\ gen' = IF cfg = "none"
              THEN [gen EXCEPT ![w] = IdleGen]
              ELSE [gen EXCEPT ![w].pc = "provider", ![w].useCloudflare = (cfg = "cloudflare")]
    /\ UNCHANGED <<book_pages, nextPageId, generation_jobs, genCalls, history, expVars>>

\* What a provider call can give: an image, an answer without image (gateway
\* only: generateWithCloudflare always returns a data URL), or a response that
\* is not ok, by its HTTP status.
ProviderAnswers == {"image", "null", "429", "402", "500"}

\* generateWithCloudflare / generateWithLovableAI: the URL returned, NULL for an
\* answer without image; a response that is not ok throws.
Throws(answer) == answer \notin {"image", "null"}

ImageUrlOf(answer, useCloudflare) ==
    IF answer = "image" THEN (IF useCloudflare THEN "b64" ELSE "url") ELSE NULL

\* The provider call inside try/catch: whatever is thrown sets failed.
GenProvider(w, answer) ==
    /\ gen[w].pc = "provider"
    /\ gen[w].useCloudflare => answer # "null"
    /\ gen' = [gen EXCEPT ![w].pc = "insert",
                          ![w].imageUrl = IF Throws(answer) THEN NULL
                                       ELSE ImageUrlOf(answer, gen[w].useCloudflare),
                          ![w].failed = Throws(answer)]
    /\ history' = [history EXCEPT !.answers = Append(@, answer)]
    /\ UNCHANGED <<book_pages, nextPageId, generation_jobs, genCalls, expVars>>

\* The counts are computed from the job row as it was loaded.
newCompletedCount(w) ==
    IF gen[w].failed THEN gen[w].job.completed_count ELSE gen[w].job.completed_count + 1

newFailedCount(w) ==
    IF gen[w].failed THEN gen[w].job.failed_count + 1 ELSE gen[w].job.failed_count

\* Save the page if there is an image; an insert error is only logged.
GenInsertPage(w, ok) ==
    /\ gen[w].pc = "insert"
    /\ IF gen[w].imageUrl # NULL /\ ~gen[w].failed
       THEN IF ok
            THEN /\ book_pages' = book_pages \cup
                       {[id |-> nextPageId, page_number |-> gen[w].currentPageNumber,
                         image |-> gen[w].imageUrl]}
                 /\ nextPageId' = nextPageId + 1
                 /\ history' = [history EXCEPT !.inserted = @ \cup {nextPageId}]
            ELSE /\ history' = [history EXCEPT !.insertErrors = Min({@ + 1, 1})]
                 /\ UNCHANGED <<book_pages, nextPageId>>
       ELSE /\ ok
            /\ UNCHANGED <<book_pages, nextPageId, history>>
    /\ gen' = [gen EXCEPT ![w].pc = "counts"]
    /\ UNCHANGED <<generation_jobs, genCalls, expVars>>

\* Update job progress.
GenUpdateCounts(w) ==
    /\ gen[w].pc = "counts"
    /\ generation_jobs' = [generation_jobs EXCEPT
                              ![gen[w].jobId].completed_count = newCompletedCount(w),
                              ![gen[w].jobId].failed_count = newFailedCount(w)]
    /\ gen' = [gen EXCEPT ![w].pc = "next"]
    /\ UNCHANGED <<book_pages, nextPageId, genCalls, history, expVars>>

\* Schedule the next prompt (EdgeRuntime.waitUntil, a POST {jobId, promptIndex + 1}
\* with the service-role key), or mark the job completed after the last prompt.
GenScheduleNext(w) ==
    /\ gen[w].pc = "next"
    /\ LET nextPromptIndex == gen[w].promptIndex + 1 IN
       IF nextPromptIndex < Len(gen[w].job.prompts)
       THEN /\ genCalls' = genCalls \cup
                  {[jobId |-> gen[w].jobId, promptIndex |-> nextPromptIndex, auth |-> "service"]}
            /\ UNCHANGED generation_jobs
       ELSE /\ generation_jobs' = [generation_jobs EXCEPT ![gen[w].jobId].status = "completed",
                                                          ![gen[w].jobId].completed_at = "set"]
            /\ UNCHANGED genCalls
    /\ gen' = [gen EXCEPT ![w] = IdleGen]
    /\ UNCHANGED <<book_pages, nextPageId, history, expVars>>

\* ----------------------------------- BatchGenerator: realtime generation loop
\* handleRealtimeGenerate with n non-empty prompt lines, up to the loop.
handleRealtimeGenerate(n) ==
    /\ ~realtime.generating
    /\ realtime.runs < MaxRuns
    /\ realtime' = [IdleRealtime EXCEPT !.generating = TRUE, !.n = n, !.pc = "top",
                                        !.runs = realtime.runs + 1]
    /\ UNCHANGED <<book_pages, nextPageId, generation_jobs, genCalls, gen, history>>
    /\ UNCHANGED <<export_jobs, staged, archives, exportCalls, exp, clients, dups, skips,
                   endpoint, poller>>

\* The Stop button, rendered while generating.
handleStop ==
    /\ realtime.generating
    /\ realtime' = [realtime EXCEPT !.abort = TRUE,
                                    !.sentAtStop = IF realtime.abort THEN @ ELSE realtime.sent]
    /\ UNCHANGED <<book_pages, nextPageId, generation_jobs, genCalls, gen, history>>
    /\ UNCHANGED <<export_jobs, staged, archives, exportCalls, exp, clients, dups, skips,
                   endpoint, poller>>

StopRequested_Ignored(rt) == FALSE

\* if (abortRef.current) at the top of an iteration.
StopRequested(rt) == rt.abort

\* The loop condition and the top of an iteration: leave the loop after the last
\* prompt or when the stop flag is set, else send the request of prompt i.
RtIterate ==
    /\ realtime.pc = "top"
    /\ realtime' = IF realtime.i >= realtime.n \/ StopRequested(realtime)
                   THEN [realtime EXCEPT !.pc = "idle", !.generating = FALSE]
                   ELSE [realtime EXCEPT !.pc = "request", !.sent = @ + 1]
    /\ UNCHANGED <<book_pages, nextPageId, generation_jobs, genCalls, gen, history>>
    /\ UNCHANGED <<export_jobs, staged, archives, exportCalls, exp, clients, dups, skips,
                   endpoint, poller>>

\* What generateImageWithPuter can give: an image, a result without imageUrl or
\* an error (both caught), or an error that names a rate or usage limit.
PuterAnswers == {"image", "error", "limit"}

\* The request returns. With an image the page is saved through onPageGenerated
\* (addPage); an error is counted and, unless it names a limit (break), the loop
\* waits before it goes on.
RtAnswer(answer) ==
    /\ realtime.pc = "request"
    /\ IF answer = "image"
       THEN /\ book_pages' = book_pages \cup
                  {[id |-> nextPageId, page_number |-> Cardinality(book_pages) + 1,
                    image |-> "b64"]}
            /\ nextPageId' = nextPageId + 1
            /\ realtime' = [realtime EXCEPT !.successCount = @ + 1, !.pc = "progress"]
       ELSE /\ realtime' = IF answer = "limit"
                           THEN [realtime EXCEPT !.failures = @ + 1, !.pc = "idle",
                                                 !.generating = FALSE]
                           ELSE [realtime EXCEPT !.failures = @ + 1, !.pc = "progress"]
            /\ UNCHANGED <<book_pages, nextPageId>>
    /\ UNCHANGED <<generation_jobs, genCalls, gen, history>>
    /\ UNCHANGED <<export_jobs, staged, archives, exportCalls, exp, clients, dups, skips,
                   endpoint, poller>>

\* setProgress, the delay between two prompts (skipped after the last prompt and
\* when the stop flag is set), and i++.
RtAdvance ==
    /\ realtime.pc = "progress"
    /\ realtime' = [realtime EXCEPT !.i = @ + 1, !.pc = "top"]
    /\ UNCHANGED <<book_pages, nextPageId, generation_jobs, genCalls, gen, history>>
    /\ UNCHANGED <<export_jobs, staged, archives, exportCalls, exp, clients, dups, skips,
                   endpoint, poller>>

RtStep == RtIterate \/ (\E a \in PuterAnswers : RtAnswer(a)) \/ RtAdvance

\* ------------------------------------------------------------ specification
PageEdits ==
    \/ \E k \in ImageKinds : AddPage(k)
    \/ \E p \in book_pages : DeletePage(p)

\* One export request of one client.
Request(c) == ClientClick(c) \/ ClientQuery(c) \/ ClientCreate(c)

\* The processor when every awaited call succeeds.
Processor(w) ==
    \/ ExpLoadJob(w) \/ ExpSelectPageIds(w) \/ ExpFetchPages(w) \/ ExpStagePage(w)
    \/ ExpUpdateProgress(w) \/ ExpInvokeNext(w) \/ ExpCatch(w)
    \/ FinList(w) \/ FinZip(w, {}) \/ FinComplete(w) \/ FinCleanup(w, TRUE)

\* The calls of the processor that fail.
Failures(w) ==
    \/ ExpThrow(w) \/ FinThrow(w) \/ FinCatch(w)
    \/ (\E lost \in SUBSET exp[w].files : lost # {} /\ FinZip(w, lost))
    \/ FinCleanup(w, FALSE)

\* One export request; calls of the processor may fail, triggers may be lost or
\* delivered twice, so that invocations of one job overlap.
Next ==
    \/ Request(1)
    \/ \E j \in 1..MaxJobs : DeliverCall(j) \/ DuplicateCall(j) \/ DropCall(j)
    \/ \E w \in Workers : Processor(w) \/ Failures(w)

Spec == Init /\ [][Next]_vars

\* One export request whose triggers may be delivered twice, every call succeeding.
OverlapNext ==
    \/ Request(1)
    \/ \E j \in 1..MaxJobs : DeliverCall(j) \/ DuplicateCall(j)
    \/ \E w \in Workers : Processor(w) \/ FinCatch(w)

OverlapSpec == Init /\ [][OverlapNext]_vars

\* One export request while the user adds and deletes pages of the book.
EditNext ==
    \/ PageEdits
    \/ Request(1)
    \/ \E j \in 1..MaxJobs : DeliverCall(j)
    \/ \E w \in Workers : Processor(w) \/ FinCatch(w)

EditSpec == Init /\ [][EditNext]_vars

\* Several clients request exports of the same book.
ClientsNext ==
    \/ \E c \in Clients : Request(c) \/ ClientResume(c) \/ ClientReset(c)
    \/ \E j \in 1..MaxJobs : DeliverCall(j) \/ DropCall(j)
    \/ \E w \in Workers : Processor(w)

ClientsSpec == Init /\ [][ClientsNext]_vars

\* One export request of a book left alone; an invocation may be killed at any
\* point and the call of a stopped chain is then sent again.
CrashNext ==
    \/ Request(1)
    \/ \E j \in 1..MaxJobs : DeliverCall(j) \/ ExpRetry(j)
    \/ \E w \in Workers : Processor(w) \/ ExpCrash(w)

CrashSpec == Init /\ [][CrashNext]_vars

\* One component follows its export by polling while the user goes to another
\* book and back, or leaves the page.
BookNext ==
    \/ Request(1) \/ BookChange(1) \/ ClientReset(1) \/ PollTick(1)
    \/ \E j \in 1..MaxJobs, ok \in BOOLEAN : PollReturn(1, j, ok)
    \/ \E j \in 1..MaxJobs : DeliverCall(j)
    \/ \E w \in Workers : Processor(w)

BookSpec == Init /\ [][BookNext]_vars

\* One component follows its exports by polling; a batch may throw.
PollNext ==
    \/ Request(1) \/ handleReset(1) \/ PollTick(1)
    \/ \E j \in 1..MaxJobs, ok \in BOOLEAN : PollReturn(1, j, ok)
    \/ \E j \in 1..MaxJobs : DeliverCall(j)
    \/ \E w \in Workers : Processor(w) \/ ExpThrow(w)

PollSpec == Init /\ [][PollNext]_vars

\* One export request of a book that is left alone, every call succeeding and
\* every trigger delivered once.
ScenarioNext ==
    \/ Request(1)
    \/ \E j \in 1..MaxJobs : DeliverCall(j)
    \/ \E w \in Workers : Processor(w)

ScenarioSpec ==
    /\ Init
    /\ [][ScenarioNext]_vars
    /\ WF_vars(\E j \in 1..MaxJobs : DeliverCall(j))
    /\ \A w \in Workers : WF_vars(Processor(w))

\* Requests of every shape and credential arrive at the export endpoint.
AuthNext ==
    \/ \E req \in Requests : HandleRequest(req)
    \/ \E j \in 1..MaxJobs : DeliverCall(j)
    \/ \E w \in Workers : Processor(w)

AuthSpec == Init /\ [][AuthNext]_vars

\* One generation job run through its chain; provider calls, page inserts and
\* the trigger of the next prompt may fail.
GenStep(w) ==
    \/ GenLoadJob(w) \/ GenMarkProcessing(w) \/ GenCheckDone(w) \/ GenMaxPage(w)
    \/ \E cfg \in ApiConfigs : GenConfig(w, cfg)
    \/ \E answer \in ProviderAnswers : GenProvider(w, answer)
    \/ \E ok \in BOOLEAN : GenInsertPage(w, ok)
    \/ GenUpdateCounts(w) \/ GenScheduleNext(w)

GenNext ==
    \/ \E n \in 1..MaxPrompts : handleBackgroundGenerate(n)
    \/ TriggerProcessor
    \/ \E m \in genCalls : GenUnauthorized(m) \/ GenDeliver(1, m) \/ GenDropCall(m)
    \/ GenStep(1)

GenSpec == Init /\ [][GenNext]_vars

\* An invocation in which the Cloudflare provider is configured and answers
\* with an image, and the page insert succeeds.
GenSuccess(w) ==
    \/ GenLoadJob(w) \/ GenMarkProcessing(w) \/ GenCheckDone(w) \/ GenMaxPage(w)
    \/ GenConfig(w, "cloudflare") \/ GenProvider(w, "image") \/ GenInsertPage(w, TRUE)
    \/ GenUpdateCounts(w) \/ GenScheduleNext(w)

\* One generation job whose requests may be delivered twice, so that invocations
\* of the job repeat and overlap; every invocation succeeds.
GenOverlapNext ==
    \/ \E n \in 1..MaxPrompts : handleBackgroundGenerate(n)
    \/ TriggerProcessor
    \/ \E w \in GenWorkers, m \in genCalls : GenDeliver(w, m) \/ GenDuplicateCall(w, m)
    \/ \E w \in GenWorkers : GenSuccess(w)

GenOverlapSpec == Init /\ [][GenOverlapNext]_vars

\* One generation job, every invocation succeeding, while the user adds pages
\* to the book.
GenEditNext ==
    \/ \E n \in 1..MaxPrompts : handleBackgroundGenerate(n)
    \/ TriggerProcessor
    \/ \E m \in genCalls : GenDeliver(1, m)
    \/ GenSuccess(1)
    \/ \E k \in ImageKinds : AddPage(k)

GenEditSpec == Init /\ [][GenEditNext]_vars

\* Realtime batches of up to MaxPrompts prompts, with the Stop button; every
\* awaited call of the loop returns.
RealtimeNext ==
    \/ \E n \in 1..MaxPrompts : handleRealtimeGenerate(n)
    \/ handleStop
    \/ RtStep

RealtimeSpec == Init /\ [][RealtimeNext]_vars /\ WF_vars(RtStep)

\* ------------------------------------------------------------------ claims
\* The places of an invocation inside finalizeExport.
InFinalize == {"fin_list", "fin_zip", "fin_complete", "fin_cleanup", "fin_catch"}

\* C1: an invocation of the export processor for a job that is already completed
\* or failed changes nothing: the job rows, the stored objects (staged files and
\* archives) and the calls in flight are as before, and the invocation is over.
C1_TerminalNoOp ==
    [][\A w \in Workers :
          (/\ exp[w].pc = "load"
           /\ exp[w].jobId \in JobIds
           /\ export_jobs[exp[w].jobId].status \in Terminal
           /\ exp'[w] # exp[w])
          => /\ exp'[w] = IdleWorker
             /\ UNCHANGED <<export_jobs, staged, archives, exportCalls, book_pages>>]_vars

\* Two invocations found the job terminal and returned at once.
C1_Witness == skips = 2

\* C2: over the successful invocations of one job, processed_pages never decreases
\* and never exceeds total_pages, the page count taken when the job was created,
\* also when pages are added to the book after the job was created.
C2_ProcessedWithinTotal ==
    /\ [](\A j \in JobIds : export_jobs[j].processed_pages <= export_jobs[j].total_pages)
    /\ [][\A j \in JobIds :
             export_jobs'[j].processed_pages >= export_jobs[j].processed_pages]_vars

\* The export jobs of the book that are pending or processing.
ActiveJobs == {j \in JobIds : export_jobs[j].book_id = 1 /\ export_jobs[j].status \in Active}

\* C5: when the existence check of an export request finds a pending or processing
\* job of the book, the request attaches the client to that job (the newest one)
\* and neither that step nor the resume call after it inserts a row or triggers a
\* processor invocation.
C5_DedupGuard ==
    [][\A c \in Clients :
          /\ (clients[c].pc = "query" /\ clients'[c].pc # "query" /\ ActiveJobs # {})
                => /\ clients'[c].pc = "resume"
                   /\ clients'[c].jobId = Max(ActiveJobs)
                   /\ clients'[c].status = "exporting"
                   /\ UNCHANGED <<export_jobs, exportCalls>>
          /\ (clients[c].pc = "resume" /\ clients'[c] # clients[c])
                => /\ clients'[c].pc = "ready"
                   /\ clients'[c].jobId = clients[c].jobId
                   /\ UNCHANGED <<export_jobs, exportCalls>>]_vars

\* Two clients are attached to the same job, one row, and both requests are over.
C5_Witness ==
    /\ Len(export_jobs) = 1
    /\ \A c \in Clients : clients[c].pc = "ready" /\ clients[c].jobId = 1
                          /\ clients[c].status = "exporting"

\* C6: whatever the interleaving of the clients' export requests, no two export
\* jobs of the book are pending or processing at the same time.
C6_OneActiveJob == Cardinality(ActiveJobs) <= 1

\* C7: finalizeExport runs for a job only while current_offset >= total_pages, and
\* no archive exists for a job whose cursor is below its total.
C7_FinalizeAtFullCoverage ==
    /\ \A w \in Workers :
          exp[w].pc \in InFinalize =>
             export_jobs[exp[w].jobId].current_offset >= export_jobs[exp[w].jobId].total_pages
    /\ \A i \in 1..Len(archives) :
          export_jobs[archives[i].job].current_offset >= export_jobs[archives[i].job].total_pages

\* A book of at least one page, every page an inline base64 data URL.
AllDataUrls == book_pages # {} /\ \A p \in book_pages : p.image = "b64"

\* No invocation of job j is running.
Quiet(j) == \A w \in Workers : exp[w].pc = "idle" \/ exp[w].jobId # j

\* C8: for a book of N >= 1 data-URL pages that is left alone, with every trigger
\* delivered: the job is created with total_pages = N and the invocations of a
\* job run one after the other; an invocation that loads fewer than N processed
\* pages ends with processed_pages one higher and one call for the next, so that
\* the k-th leaves processed_pages = k; the invocation that loads N, which is
\* number N + 1, is the one that finalizes and sends no further call; and the
\* job eventually is completed with a download_url and nothing left staged.
C8_Scenario ==
    /\ [](AllDataUrls =>
            \A j \in JobIds : LET N == Cardinality(book_pages) IN
               /\ export_jobs[j].total_pages = N
               /\ export_jobs[j].processed_pages = export_jobs[j].current_offset
               /\ Cardinality({w \in Workers : exp[w].jobId = j /\ exp[w].pc # "idle"})
                     + exportCalls[j] <= 1
               /\ \A w \in Workers :
                     (exp[w].jobId = j /\ exp[w].pc \notin {"idle", "load"}) =>
                        /\ exp[w].pc # "select" =>
                              (exp[w].pc \in InFinalize <=> exp[w].jobProcessed = N)
                        /\ export_jobs[j].processed_pages \in
                              {exp[w].jobProcessed, exp[w].jobProcessed + 1}
               /\ (Quiet(j) /\ exportCalls[j] = 0) =>
                     /\ export_jobs[j].status = "completed"
                     /\ export_jobs[j].processed_pages = N)
    /\ [][AllDataUrls =>
            \A w \in Workers :
               (exp[w].pc \notin {"idle", "load"} /\ exp'[w].pc = "idle") =>
                  LET j == exp[w].jobId IN
                  IF exp[w].jobProcessed < Cardinality(book_pages)
                  THEN /\ export_jobs'[j].processed_pages = exp[w].jobProcessed + 1
                       /\ exportCalls'[j] = 1
                  ELSE /\ export_jobs'[j].status = "completed"
                       /\ exportCalls'[j] = 0]_vars
    /\ (AllDataUrls /\ Len(export_jobs) = 1)
          ~> (/\ Len(export_jobs) = 1
              /\ export_jobs[1].status = "completed"
              /\ export_jobs[1].download_url # 0
              /\ StagedOf(1) = {})

\* The export of a book of MaxPages data-URL pages is over: completed after the
\* invocation that loaded processed_pages = MaxPages, with its archive of
\* MaxPages entries and nothing staged.
C8_Witness ==
    /\ AllDataUrls
    /\ Cardinality(book_pages) = MaxPages
    /\ Len(export_jobs) = 1
    /\ export_jobs[1].status = "completed"
    /\ export_jobs[1].download_url # 0
    /\ export_jobs[1].processed_pages = MaxPages
    /\ Len(archives) = 1
    /\ Cardinality(archives[1].entries) = MaxPages
    /\ StagedOf(1) = {}
    /\ Quiet(1)
    /\ exportCalls[1] = 0

\* The place of a status in the lifecycle pending -> processing -> terminal.
StatusRank(st) == CASE st = "pending" -> 0 [] st = "processing" -> 1 [] OTHER -> 2

\* C10: the status of an export job only moves forward along
\* pending -> processing -> {completed, failed}, and once it is completed or
\* failed it never changes again, also when invocations of the job overlap.
C10_StatusMonotonic ==
    [][\A j \in JobIds :
          /\ StatusRank(export_jobs'[j].status) >= StatusRank(export_jobs[j].status)
          /\ export_jobs[j].status \in Terminal =>
                export_jobs'[j].status = export_jobs[j].status]_vars

\* ------------------------------------------------------ generation claims
\* The pages the generation job has inserted.
NewPages == {p \in book_pages : p.id \in history.inserted}

\* The answers of the provider so far with the given property.
AnswersIn(S) == {k \in 1..Len(history.answers) : history.answers[k] \in S}

\* C3: a generation job of N prompts whose chain ran from promptIndex 0 to N - 1,
\* every provider call giving an image and every page insert succeeding, ends
\* completed with exactly N new pages numbered start + 1 .. start + N (start: the
\* highest page_number before the job), completed_count = N and failed_count = 0.
C3_AllSucceed ==
    (/\ Len(generation_jobs) = 1
     /\ generation_jobs[1].status = "completed"
     /\ history.insertErrors = 0
     /\ AnswersIn({"image"}) = 1..Len(history.answers))
    => LET N == Len(generation_jobs[1].prompts) IN
       /\ Len(history.answers) = N
       /\ Cardinality(NewPages) = N
       /\ {p.page_number : p \in NewPages} = (history.start + 1) .. (history.start + N)
       /\ \A p \in book_pages \ NewPages : p.page_number <= history.start
       /\ generation_jobs[1].completed_count = N
       /\ generation_jobs[1].failed_count = 0
       /\ generation_jobs[1].total_count = N

\* A job of MaxPrompts prompts, added to a book that had pages, is completed
\* after MaxPrompts images.
C3_Witness ==
    /\ Len(generation_jobs) = 1
    /\ generation_jobs[1].status = "completed"
    /\ Len(generation_jobs[1].prompts) = MaxPrompts
    /\ history.start > 0
    /\ history.insertErrors = 0
    /\ Len(history.answers) = MaxPrompts
    /\ AnswersIn({"image"}) = 1..MaxPrompts
    /\ Cardinality(NewPages) = MaxPrompts

\* The provider statuses the specification calls fatal: rate limit, payment.
FatalAnswers == {"429", "402"}

\* C4: once the provider has answered the prompt of index k with 429 or 402, no
\* later prompt is sent to the provider, no request for index k + 1 is in
\* flight, and when that invocation is over the job is failed with an
\* error_message.
C4_FatalStopsChain ==
    \A k \in AnswersIn(FatalAnswers) :
       /\ Len(history.answers) = k
       /\ \A m \in genCalls : m.promptIndex < k
       /\ (\A w \in GenWorkers : gen[w].pc = "idle") =>
             /\ generation_jobs[1].status = "failed"
             /\ generation_jobs[1].error_message # NULL

\* C9: a prompt for which the provider gives no image (an answer without image
\* URL, or an error that is not fatal) adds 1 to failed_count, leaves
\* completed_count as it is and inserts no page; a job whose answers are images
\* but for such prompts ends with completed_count = number of images,
\* failed_count = number of the others, and as many new pages as images
\* (prompts [a, b, c], no image for b: 2, 1 and 2 new pages).
C9_NoImageCountsFailed ==
    /\ [][\A w \in GenWorkers :
             (/\ gen[w].pc \in {"insert", "counts"}
              /\ gen'[w].pc # gen[w].pc
              /\ history.answers[Len(history.answers)] \in {"null", "500"})
             => /\ book_pages' = book_pages
                /\ generation_jobs'[1].completed_count = gen[w].job.completed_count
                /\ gen[w].pc = "counts" =>
                      generation_jobs'[1].failed_count = gen[w].job.failed_count + 1]_vars
    /\ []((/\ Len(generation_jobs) = 1
           /\ generation_jobs[1].status = "completed"
           /\ history.insertErrors = 0
           /\ AnswersIn(FatalAnswers) = {})
          => /\ generation_jobs[1].completed_count = Cardinality(AnswersIn({"image"}))
             /\ generation_jobs[1].failed_count = Cardinality(AnswersIn({"null", "500"}))
             /\ Cardinality(NewPages) = Cardinality(AnswersIn({"image"})))

\* --------------------------------------------------- export error handling
\* The places of an invocation where an error has been thrown and not yet handled.
Caught == {"catch", "fin_catch"}

\* C11: once the archive is uploaded and the job is marked completed, whatever a
\* cleanup delete does (returns an error, or throws) the steps of that
\* invocation leave the job completed with its download_url.
C11_CleanupKeepsCompleted ==
    [][\A w \in Workers :
          (/\ exp[w].pc \in {"fin_cleanup", "fin_catch"}
           /\ exp[w].zip # 0
           /\ exp'[w] # exp[w]
           /\ export_jobs[exp[w].jobId].status = "completed")
          => /\ export_jobs'[exp[w].jobId].status = "completed"
             /\ export_jobs'[exp[w].jobId].download_url =
                   export_jobs[exp[w].jobId].download_url]_vars

\* C12: download_url is set exactly when the job is completed, error_message
\* exactly when it is failed.
C12_UrlAndMessageMatchStatus ==
    \A j \in JobIds :
       /\ export_jobs[j].download_url # 0 <=> export_jobs[j].status = "completed"
       /\ export_jobs[j].error_message # NULL <=> export_jobs[j].status = "failed"

\* C14: an invocation in which a step has thrown goes straight to its catch
\* block and returns from there; when it returns the job is failed with an
\* error_message and completed_at, and from the throw to the return it sends no
\* call for a next invocation.
C14_ErrorFailsJob ==
    [][\A w \in Workers :
          /\ (exp'[w].pc \in Caught /\ exp'[w] # exp[w])
                => /\ exp[w].pc \notin {"idle", "load"}
                   /\ exp'[w].err # NULL
                   /\ UNCHANGED <<export_jobs, exportCalls>>
          /\ (exp[w].pc \in Caught /\ exp'[w] # exp[w])
                => /\ exp'[w] = IdleWorker
                   /\ export_jobs'[exp[w].jobId].status = "failed"
                   /\ export_jobs'[exp[w].jobId].error_message = exp[w].err
                   /\ export_jobs'[exp[w].jobId].error_message # NULL
                   /\ export_jobs'[exp[w].jobId].completed_at # NULL
                   /\ UNCHANGED exportCalls]_vars

\* An error thrown while a batch was processed has ended its job as failed, with
\* its message and completed_at, and nothing runs or waits any more.
C14_Witness ==
    /\ \E j \in JobIds : /\ export_jobs[j].status = "failed"
                         /\ export_jobs[j].error_message \in
                               {"pagesError", "fetchError", "uploadError", "atobError"}
                         /\ export_jobs[j].completed_at # NULL
                         /\ exportCalls[j] = 0
    /\ \A w \in Workers : exp[w].pc = "idle"

\* ------------------------------------------------ export endpoint: requests
\* The two kinds of request that may change job state: an external call with the
\* session of the owner of the book it names, and an internal call with exactly
\* the service-role key.
Entitled(req) ==
    \/ ~req.isInternalCall /\ req.auth = "owner" /\ req.bookId = 1
    \/ req.isInternalCall /\ req.auth = "service"

\* C13: a request that is neither an external call of the book's owner nor an
\* internal call with the service-role key is answered with an error status and
\* changes nothing: no job row is created or modified, nothing is staged or
\* archived, no call is sent and no invocation is started.
C13_OnlyEntitledRequestsMutate ==
    [][(endpoint' # endpoint /\ ~Entitled(endpoint'.request))
          => /\ endpoint'.status \in {400, 401, 404}
             /\ UNCHANGED <<export_jobs, staged, archives, exportCalls, exp, book_pages>>]_vars

\* A request {jobId} without isInternalCall that carries the service-role key, sent
\* while job 1 is being processed, has been answered 401.
C13_Witness ==
    /\ endpoint.request = [isInternalCall |-> FALSE, auth |-> "service", bookId |-> 0,
                           jobId |-> 1]
    /\ endpoint.status = 401
    /\ Len(export_jobs) = 1
    /\ export_jobs[1].status = "processing"
    /\ export_jobs[1].processed_pages = 1

\* ------------------------------------------- generation: errors and counts
\* No invocation of the generation processor is running.
GenQuiet == \A w \in GenWorkers : gen[w].pc = "idle"

\* C15: an invocation that throws outside the provider call (no generation API
\* configured) has written a terminal status to the job when it returns.
C15_ThrowEndsTerminal ==
    [][\A w \in GenWorkers :
          (gen[w].pc = "config" /\ gen'[w].pc = "idle")
          => generation_jobs'[gen[w].jobId].status \in Terminal]_vars

\* C18: completed_count is the number of page rows the job's invocations have
\* inserted: never more than that, and equal to it whenever no invocation is
\* between its insert and its update of the counts.
C18_CompletedCountIsPagesInserted ==
    \A j \in 1..Len(generation_jobs) :
       /\ generation_jobs[j].completed_count <= Cardinality(NewPages)
       /\ GenQuiet => generation_jobs[j].completed_count = Cardinality(NewPages)

\* C19: the call with which the client triggers the processor after inserting
\* the job row is accepted: when it is answered, an invocation for the job has
\* started (which then marks the pending job processing).
C19_ClientTriggerAccepted ==
    [][\A m \in genCalls :
          (m.auth = "user" /\ m \notin genCalls')
          => \E w \in GenWorkers : /\ gen[w].pc = "idle"
                                   /\ gen'[w].pc = "load"
                                   /\ gen'[w].jobId = m.jobId]_vars

\* C16: completed_count + failed_count never exceeds the number of prompts of the
\* job, also when a request for a prompt index is delivered more than once.
C16_CountsWithinPrompts ==
    \A j \in 1..Len(generation_jobs) :
       generation_jobs[j].completed_count + generation_jobs[j].failed_count
          <= Len(generation_jobs[j].prompts)

\* C17: once a generation job is completed or failed, its status and its counts
\* never change again and no page is inserted, whatever invocations of the job
\* are still running.
C17_TerminalJobFrozen ==
    [][\A j \in 1..Len(generation_jobs) :
          generation_jobs[j].status \in Terminal
          => /\ generation_jobs'[j].status = generation_jobs[j].status
             /\ generation_jobs'[j].completed_count = generation_jobs[j].completed_count
             /\ generation_jobs'[j].failed_count = generation_jobs[j].failed_count
             /\ book_pages' = book_pages]_vars

\* C20: once a component has a job id and status exporting it sends a poll at
\* once and holds one interval timer; a poll that observes the job completed
\* shows its download_url and stops the timer, a poll that observes it failed
\* shows its error_message and stops the timer; after either the component
\* sends no further poll of that job, and it never holds two timers.
C20_PollerStopsAtTerminal ==
    /\ [](\A c \in Clients : poller[c].timers <= 1)
    /\ [][\A c \in Clients :
            /\ ( /\ <<clients'[c].jobId, clients'[c].status>> #
                        <<clients[c].jobId, clients[c].status>>
                 /\ clients'[c].jobId # 0
                 /\ clients'[c].status = "exporting" )
               => /\ poller'[c].inflight[clients'[c].jobId] =
                        poller[c].inflight[clients'[c].jobId] + 1
                  /\ poller'[c].timers = 1
            /\ \A j \in JobIds :
                 /\ PollReturn(c, j, TRUE) /\ export_jobs[j].status = "completed"
                    => /\ clients'[c].status = "complete"
                       /\ poller'[c].downloadUrl = export_jobs[j].download_url
                       /\ poller'[c].downloadUrl # 0
                       /\ poller'[c].timers = 0
                 /\ PollReturn(c, j, TRUE) /\ export_jobs[j].status = "failed"
                    => /\ clients'[c].status = "error"
                       /\ poller'[c].toast = export_jobs[j].error_message
                       /\ poller'[c].timers = 0
                 /\ j \in poller[c].seen
                    => poller'[c].inflight[j] <= poller[c].inflight[j]]_vars

\* C21: within the chain of one job the units are taken in strictly increasing
\* order, none skipped and none repeated: an export invocation stages a page
\* whose page_number is above every page staged for the job before, and when it
\* finds no row at the cursor every page of the book has been staged for the
\* job; the generation chain sends the prompt of index k to the provider as
\* its (k + 1)-th request.
C21_UnitsInOrder ==
    /\ [][\A w \in Workers :
            /\ (exp[w].pc = "loop" /\ exp'[w].pc = "progress")
               => \A f \in staged' \ staged : \A g \in staged :
                     g[1] = f[1] => g[2] < f[2]
            /\ (exp[w].pc = "select" /\ exp'[w].pc = "fin_list")
               => \A p \in book_pages :
                     <<exp[w].jobId, p.page_number, p.id>> \in staged]_vars
    /\ [][\A w \in GenWorkers :
            (gen[w].pc = "provider" /\ gen'[w].pc = "insert")
               => Len(history.answers) = gen[w].promptIndex]_vars

\* The pages of the book that stand before page_number n in the ordered result.
PagesBefore(n) == {q \in book_pages : q.page_number < n}

\* C22: when an export invocation is killed at any point and the job is invoked
\* again, the persisted cursor alone decides the page that is staged next: the
\* page staged is the one at position current_offset, so a page whose count was
\* persisted is not staged again and a page staged without its count is staged
\* again under the same key; no page has two staged objects, and the job is
\* finalized only when every page of the book is staged.
C22_CrashResumesAtCursor ==
    /\ [](\A f, g \in staged : (f[1] = g[1] /\ f[3] = g[3]) => f = g)
    /\ [][\A w \in Workers :
            /\ (exp[w].pc = "loop" /\ exp'[w].pc = "progress")
               => \E p \in book_pages :
                     /\ <<exp[w].jobId, p.page_number, p.id>> \in staged'
                     /\ staged' = staged \cup {<<exp[w].jobId, p.page_number, p.id>>}
                     /\ Cardinality(PagesBefore(p.page_number)) =
                           export_jobs[exp[w].jobId].current_offset
                     /\ \A q \in PagesBefore(p.page_number) :
                           <<exp[w].jobId, q.page_number, q.id>> \in staged
            /\ (exp[w].pc = "select" /\ exp'[w].pc = "fin_list")
               => \A p \in book_pages :
                     <<exp[w].jobId, p.page_number, p.id>> \in staged]_vars

\* An invocation was killed between its upload and its progress update; the job
\* was invoked again and, from the unchanged cursor, has fetched the page that
\* is already staged and is about to upload it under the same key.
C22_Witness ==
    /\ dups >= 1
    /\ \E w \in Workers :
          /\ exp[w].pc = "loop"
          /\ exp[w].jobId = 1
          /\ export_jobs[1].current_offset = 0
          /\ \E p \in exp[w].pages : <<1, p.page_number, p.id>> \in staged

\* C23: the resume call a client sends for the pending or processing job it
\* found makes the backend go on with that job: the call starts an invocation
\* of processNextBatch for it (an internal call is in flight or an invocation
\* is running for the job once the resume call has been answered).
C23_ResumeRestartsChain ==
    [][\A c \in Clients :
          (clients[c].pc = "resume" /\ clients'[c].pc = "ready")
             => \/ exportCalls'[clients[c].jobId] > exportCalls[clients[c].jobId]
                \/ \E w \in Workers : /\ exp[w].pc = "idle"
                                      /\ exp'[w].pc = "load"
                                      /\ exp'[w].jobId = clients[c].jobId]_vars

\* C24: whenever an export job is marked completed, the archive it points to
\* has an entry for every object staged under export-temp/<jobId> at that
\* moment; no job is completed with an archive that leaves a staged object out.
C24_ArchiveHoldsEveryStagedObject ==
    [][\A w \in Workers :
          (exp[w].pc = "fin_complete" /\ exp'[w].pc = "fin_cleanup")
             => /\ export_jobs'[exp[w].jobId].status = "completed"
                /\ StagedOf(exp[w].jobId) \subseteq
                      archives[export_jobs'[exp[w].jobId].download_url].entries]_vars

\* C25: in every reachable state no two pages of the book have the same
\* page_number, also while a generation job runs and the user adds a page.
C25_PageNumbersUnique ==
    \A p, q \in book_pages : p.page_number = q.page_number => p = q

\* C26: in the realtime loop, once the stop flag is set no further request is
\* sent to the image provider: only the request in flight at that moment
\* returns (and may save its page), the prompts after it are never sent, and
\* the loop ends.
C26_StopEndsLoop ==
    /\ [](realtime.abort => realtime.sent = realtime.sentAtStop)
    /\ [][(realtime.abort /\ realtime'.abort)
             => /\ realtime'.sent = realtime.sent
                /\ book_pages' # book_pages => realtime.pc = "request"]_vars
    /\ ((realtime.abort /\ realtime.generating) ~> ~realtime.generating)

\* Stop was pressed while the request of the first of several prompts was in
\* flight: its page was saved, no other prompt was sent and the loop has ended.
C26_Witness ==
    /\ realtime.abort
    /\ ~realtime.generating
    /\ realtime.n > 1
    /\ realtime.sent = 1
    /\ realtime.successCount = 1
    /\ realtime.i = 1

\* C27: an export invocation on a job that is not terminal advances
\* current_offset, finalizes the job or marks it failed: it never sends the call
\* for the next invocation with the cursor where it loaded it. So, with every
\* call delivered and the book left alone, a job reaches a terminal status
\* whatever the image_url of its pages holds.
C27_InvocationAdvances ==
    /\ [][\A w \in Workers :
            (exp[w].pc = "loop" /\ exp'[w].pc = "idle"
               /\ exportCalls'[exp[w].jobId] > exportCalls[exp[w].jobId])
               => export_jobs[exp[w].jobId].current_offset >
                     exp[w].offset - (exp[w].processed - exp[w].jobProcessed)]_vars
    /\ (Len(export_jobs) = 1) ~> (Len(export_jobs) >= 1 /\ export_jobs[1].status \in Terminal)

\* C28: when the generation processor is invoked more than once for the same
\* job and promptIndex while the job is not terminal, the prompt of that index
\* gives at most one inserted page and is counted once: over the job no more
\* pages are inserted than it has prompts, completed_count + failed_count stays
\* within the number of prompts, and a continuation for an index is sent while
\* no invocation of that index or a later one is running.
C28_DuplicateTriggerIdempotent ==
    /\ [](Len(generation_jobs) = 1 =>
            /\ Cardinality(history.inserted) <= Len(generation_jobs[1].prompts)
            /\ generation_jobs[1].completed_count + generation_jobs[1].failed_count
                  <= Len(generation_jobs[1].prompts))
    /\ [][\A m \in genCalls' \ genCalls :
            m.promptIndex > 0 =>
               \A w \in GenWorkers :
                  gen'[w].pc # "idle" => gen'[w].promptIndex < m.promptIndex]_vars

\* C29: after an export has failed on the client and the user retries, no poll
\* result of the failed job is applied to the component any more (a poll of a
\* job already seen failed does not change the status of a component that is
\* exporting again), and the job the retry creates is polled: a component that
\* holds the id of a job it has not seen end is exporting with its timer set.
C29_RetryFollowsNewJob ==
    /\ [][\A c \in Clients : \A j \in JobIds :
            ( /\ PollReturn(c, j, TRUE)
              /\ j \in poller[c].seen
              /\ export_jobs[j].status = "failed"
              /\ clients[c].status = "exporting" )
               => clients'[c].status = "exporting"]_vars
    /\ [](\A c \in Clients :
            ( /\ clients[c].pc = "ready"
              /\ clients[c].jobId # 0
              /\ clients[c].jobId \notin poller[c].seen )
               => /\ clients[c].status = "exporting"
                  /\ poller[c].timers = 1)

\* C30: after the book of the export component has changed (status, download
\* URL and job id are reset) or the component is gone, the answer of a poll
\* sent for the previous job changes neither the status nor the download URL
\* shown, also when the poll was in flight at the change.
C30_StalePollIgnored ==
    [][\A c \in Clients : \A j \in JobIds : \A ok \in BOOLEAN :
          (PollReturn(c, j, ok) /\ clients[c].jobId = 0 /\ clients[c].status = "idle")
             => /\ clients'[c].status = "idle"
                /\ poller'[c].downloadUrl = poller[c].downloadUrl]_vars

====
